---- MODULE Spec2Model ----
(***************************************************************************)
(* Model of the bus-timetable API (FastAPI + SQLAlchemy): the tables       *)
(* lineas / recorridos / horarios, the administrative CRUD handlers of     *)
(* main.py behind the get_admin_user dependency, the two search handlers   *)
(* get_horarios_directos and calcular_conexiones, and the register and     *)
(* login routes of auth/.                                                  *)
(*                                                                         *)
(* Text values that the code parses (times "HH:MM", the hora_actual query  *)
(* parameter, line names) are sequences of one-character strings, so that  *)
(* split / int / strptime / string ordering are computed, not assumed.     *)
(* City names and day types are only compared for equality and are plain   *)
(* strings.                                                                *)
(***************************************************************************)
EXTENDS Integers, Sequences, FiniteSets, TLC

VARIABLES lineas, recorridos, horarios, users, en_vuelo,
          op, req, cred, status, body, encontradas, candidatas

vars == <<lineas, recorridos, horarios, users, en_vuelo,
          op, req, cred, status, body, encontradas, candidatas>>

tablas == <<lineas, recorridos, horarios>>

(***************************************************************************)
(* Text helpers                                                            *)
(***************************************************************************)

\* The characters Python's int() reads as decimal digits (ASCII subset).
Digitos == <<"0", "1", "2", "3", "4", "5", "6", "7", "8", "9">>

EsDigito(c) == \E i \in DOMAIN Digitos : Digitos[i] = c

ValorDigito(c) == (CHOOSE i \in DOMAIN Digitos : Digitos[i] = c) - 1

\* Code-point order of the characters that occur in stored values:
\* " " < "0" < ... < "9" < ":" < letters (ASCII).
Alfabeto == <<" ", "0", "1", "2", "3", "4", "5", "6", "7", "8", "9", ":",
              "A", "L", "a", "b">>

Ord(c) == CHOOSE i \in DOMAIN Alfabeto : Alfabeto[i] = c

\* s < t as the database compares two strings (ORDER BY on a String column).
RECURSIVE str_lt(_, _)
str_lt(s, t) ==
    IF t = <<>> THEN FALSE
    ELSE IF s = <<>> THEN TRUE
    ELSE IF Ord(Head(s)) # Ord(Head(t)) THEN Ord(Head(s)) < Ord(Head(t))
    ELSE str_lt(Tail(s), Tail(t))

\* str.split(":")
RECURSIVE split(_)
split(s) ==
    IF \A i \in DOMAIN s : s[i] # ":" THEN <<s>>
    ELSE LET k == CHOOSE i \in DOMAIN s :
                      s[i] = ":" /\ \A j \in 1..(i - 1) : s[j] # ":"
         IN  <<SubSeq(s, 1, k - 1)>> \o split(SubSeq(s, k + 1, Len(s)))

\* int(p) raises ValueError unless p is a non-empty run of digits (signs,
\* surrounding blanks and underscores, which int() also reads, are outside
\* the alphabet of the requests drawn here, except the blank, which is
\* stripped).
RECURSIVE strip(_)
strip(s) ==
    IF s # <<>> /\ Head(s) = " " THEN strip(Tail(s))
    ELSE IF s # <<>> /\ s[Len(s)] = " " THEN strip(SubSeq(s, 1, Len(s) - 1))
    ELSE s

int_ok(p) == LET q == strip(p) IN q # <<>> /\ \A i \in DOMAIN q : EsDigito(q[i])

RECURSIVE int_digitos(_)
int_digitos(q) ==
    IF q = <<>> THEN 0
    ELSE 10 * int_digitos(SubSeq(q, 1, Len(q) - 1)) + ValorDigito(q[Len(q)])

int(p) == int_digitos(strip(p))

\* The try-block of both search handlers: split, two ints, range check.
hora_actual_valida(hora_actual) ==
    LET partes == split(hora_actual)
    IN  /\ Len(partes) = 2
        /\ int_ok(partes[1])
        /\ int_ok(partes[2])
        /\ 0 <= int(partes[1]) /\ int(partes[1]) <= 23
        /\ 0 <= int(partes[2]) /\ int(partes[2]) <= 59

\* str_to_minutos / time_to_minutes: h * 60 + m
str_to_minutos(hora) ==
    LET partes == split(hora) IN int(partes[1]) * 60 + int(partes[2])

\* datetime.strptime(hora, "%H:%M"): each field is one or two digits, hour
\* 0..23, minute 0..59, nothing left over; otherwise ValueError.
strptime_ok(hora) ==
    LET partes == split(hora)
    IN  /\ Len(partes) = 2
        /\ \A k \in 1..2 : /\ Len(partes[k]) \in {1, 2}
                           /\ \A i \in DOMAIN partes[k] : EsDigito(partes[k][i])
        /\ int_digitos(partes[1]) <= 23
        /\ int_digitos(partes[2]) <= 59

\* The datetime strptime builds is 1900-01-01 HH:MM; two of them compare and
\* subtract as their minutes of that day.
strptime(hora) ==
    LET partes == split(hora)
    IN  int_digitos(partes[1]) * 60 + int_digitos(partes[2])

\* str.strip().lower() of a location name, on the names used here.
strip_lower(nombre) ==
    CASE nombre = "Leales"  -> "leales"
      [] nombre = "leales " -> "leales"
      [] OTHER              -> nombre

(***************************************************************************)
(* Tables (models.py).  A row is a record; NULL is the empty foreign key.  *)
(***************************************************************************)

NULL == 0

Ids(tabla) == {f.id : f \in tabla}

Max(S) == CHOOSE x \in S : \A y \in S : y <= x

\* Integer primary key assigned by the database on INSERT (rowid rule).
siguiente_id(tabla) == IF tabla = {} THEN 1 ELSE Max(Ids(tabla)) + 1

Fila(tabla, id) == CHOOSE f \in tabla : f.id = id

\* Horario JOIN recorrido: the route a trip belongs to, if that row exists.
TieneRecorrido(R, h) == h.recorrido_id \in Ids(R)

\* Recorrido JOIN linea: the line a route belongs to, if that row exists.
TieneLinea(L, r) == r.linea_id \in Ids(L)

(***************************************************************************)
(* Request schemas (schemas.py)                                            *)
(***************************************************************************)

TiposDia == {"habil", "sabado", "domingo"}

\* Field(pattern=r"^\d{2}:\d{2}$") followed by valid_time.
hora_valida(v) ==
    /\ Len(v) = 5
    /\ EsDigito(v[1]) /\ EsDigito(v[2]) /\ v[3] = ":"
    /\ EsDigito(v[4]) /\ EsDigito(v[5])
    /\ hora_actual_valida(v)

HorarioCreate_valido(horario) ==
    /\ horario.tipo_dia \in TiposDia
    /\ hora_valida(horario.hora_salida)
    /\ hora_valida(horario.hora_llegada)

(***************************************************************************)
(* Validators (utils/validators.py)                                        *)
(***************************************************************************)

MinutosPorDia == 1440

DuracionMinima == 5

DuracionMaxima == 600

LargoMinimoNombre == 2

LargoMaximoNombre == 50

\* Faulty variant of calculate_trip_duration: no step over midnight.
calculate_trip_duration_sin_medianoche(hora_salida, hora_llegada) ==
    str_to_minutos(hora_llegada) - str_to_minutos(hora_salida)

calculate_trip_duration(hora_salida, hora_llegada) ==
    LET salida_min  == str_to_minutos(hora_salida)
        llegada_min == str_to_minutos(hora_llegada)
    IN  IF llegada_min < salida_min
        THEN llegada_min + MinutosPorDia - salida_min
        ELSE llegada_min - salida_min

\* TRUE when validate_horario_duration raises no HTTPException.
validate_horario_duration(hora_salida, hora_llegada) ==
    LET duracion == calculate_trip_duration(hora_salida, hora_llegada)
    IN  ~(duracion < DuracionMinima) /\ ~(duracion > DuracionMaxima)

\* Faulty variant of validate_recorrido_unique: the line is not compared.
validate_recorrido_unique_sin_linea(R, origen, destino, linea_id, exclude_id) ==
    ~\E r \in R : /\ r.origen = origen
                  /\ r.destino = destino
                  /\ (exclude_id # NULL => r.id # exclude_id)

\* TRUE when validate_recorrido_unique raises no HTTPException.
validate_recorrido_unique(R, origen, destino, linea_id, exclude_id) ==
    ~\E r \in R : /\ r.origen = origen
                  /\ r.destino = destino
                  /\ r.linea_id = linea_id
                  /\ (exclude_id # NULL => r.id # exclude_id)

\* TRUE when validate_origen_destino_different raises no HTTPException.
validate_origen_destino_different(origen, destino) ==
    strip_lower(origen) # strip_lower(destino)

\* TRUE when validate_horario_unique raises no HTTPException.
validate_horario_unique(H, recorrido_id, tipo_dia, hora_salida, exclude_id) ==
    ~\E h \in H : /\ h.recorrido_id = recorrido_id
                  /\ h.tipo_dia = tipo_dia
                  /\ h.hora_salida = hora_salida
                  /\ (exclude_id # NULL => h.id # exclude_id)

\* TRUE when validate_linea_nombre raises no HTTPException.
validate_linea_nombre(nombre) ==
    /\ ~(nombre = <<>> \/ Len(strip(nombre)) < LargoMinimoNombre)
    /\ ~(Len(nombre) > LargoMaximoNombre)

(***************************************************************************)
(* Administrative handlers (main.py), as functions of the stored tables    *)
(* d = [lineas, recorridos, horarios] and the request: the tables after    *)
(* the request and the HTTP status.  An HTTPException or an unhandled      *)
(* database error (500) commits nothing.                                   *)
(***************************************************************************)

Rechazo(d, codigo) == [d |-> d, status |-> codigo]

Exito(d, codigo) == [d |-> d, status |-> codigo]

\* POST /lineas/ ; lineas.nombre is UNIQUE, a duplicate fails the INSERT.
crear_linea_tx(d, linea) ==
    IF ~validate_linea_nombre(linea.nombre) THEN Rechazo(d, 400)
    ELSE IF \E l \in d.lineas : l.nombre = linea.nombre THEN Rechazo(d, 500)
    ELSE Exito([d EXCEPT !.lineas = @ \cup
                   {[id |-> siguiente_id(d.lineas), nombre |-> linea.nombre]}],
               201)

\* PUT /lineas/{linea_id}
update_linea_tx(d, linea_id, linea) ==
    IF linea_id \notin Ids(d.lineas) THEN Rechazo(d, 404)
    ELSE IF ~validate_linea_nombre(linea.nombre) THEN Rechazo(d, 400)
    ELSE IF \E l \in d.lineas : l.id # linea_id /\ l.nombre = linea.nombre
         THEN Rechazo(d, 500)
    ELSE Exito([d EXCEPT !.lineas =
                   {IF l.id = linea_id THEN [l EXCEPT !.nombre = linea.nombre]
                    ELSE l : l \in @}],
               200)

\* What db.delete(db_linea) does to the routes of the line: the relationship
\* Linea.recorridos has no delete cascade, so the unit of work sets their
\* linea_id to NULL and deletes only the line.
desasociar_recorridos(R, linea_id) ==
    {IF r.linea_id = linea_id THEN [r EXCEPT !.linea_id = NULL] ELSE r : r \in R}

\* DELETE /lineas/{linea_id}
delete_linea_tx(d, linea_id) ==
    IF linea_id \notin Ids(d.lineas) THEN Rechazo(d, 404)
    ELSE Exito([d EXCEPT !.lineas = {l \in @ : l.id # linea_id},
                         !.recorridos = desasociar_recorridos(@, linea_id)],
               204)

\* db.add(models.Recorrido(**recorrido.model_dump())); db.commit()
insertar_recorrido(d, recorrido) ==
    [d EXCEPT !.recorridos = @ \cup
        {[id |-> siguiente_id(d.recorridos),
          origen |-> recorrido.origen,
          destino |-> recorrido.destino,
          linea_id |-> recorrido.linea_id]}]

\* Faulty variant of crear_recorrido_tx: the row is committed before the
\* duplicate check, which then answers 400.
crear_recorrido_tx_guarda_antes(d, recorrido) ==
    IF ~validate_origen_destino_different(recorrido.origen, recorrido.destino)
    THEN Rechazo(d, 400)
    ELSE IF recorrido.linea_id \notin Ids(d.lineas) THEN Rechazo(d, 404)
    ELSE IF ~validate_recorrido_unique(d.recorridos, recorrido.origen,
                                       recorrido.destino, recorrido.linea_id, NULL)
    THEN Rechazo(insertar_recorrido(d, recorrido), 400)
    ELSE Exito(insertar_recorrido(d, recorrido), 201)

\* POST /recorridos/
crear_recorrido_tx(d, recorrido) ==
    IF ~validate_origen_destino_different(recorrido.origen, recorrido.destino)
    THEN Rechazo(d, 400)
    ELSE IF recorrido.linea_id \notin Ids(d.lineas) THEN Rechazo(d, 404)
    ELSE IF ~validate_recorrido_unique(d.recorridos, recorrido.origen,
                                       recorrido.destino, recorrido.linea_id, NULL)
    THEN Rechazo(d, 400)
    ELSE Exito(insertar_recorrido(d, recorrido), 201)

\* PUT /recorridos/{recorrido_id}.  The new linea_id is stored unchecked;
\* fk_forzada says whether the database enforces the foreign key (PostgreSQL
\* does and fails the UPDATE, SQLite as configured in database.py does not).
update_recorrido_tx(d, recorrido_id, recorrido, fk_forzada) ==
    IF recorrido_id \notin Ids(d.recorridos) THEN Rechazo(d, 404)
    ELSE IF ~validate_origen_destino_different(recorrido.origen, recorrido.destino)
    THEN Rechazo(d, 400)
    ELSE IF ~validate_recorrido_unique(d.recorridos, recorrido.origen,
                                       recorrido.destino, recorrido.linea_id,
                                       recorrido_id)
    THEN Rechazo(d, 400)
    ELSE IF fk_forzada /\ recorrido.linea_id \notin Ids(d.lineas)
    THEN Rechazo(d, 500)
    ELSE Exito([d EXCEPT !.recorridos =
                   {IF r.id = recorrido_id
                    THEN [r EXCEPT !.origen = recorrido.origen,
                                   !.destino = recorrido.destino,
                                   !.linea_id = recorrido.linea_id]
                    ELSE r : r \in @}],
               200)

\* What db.delete(db_recorrido) does to the trips of the route (no delete
\* cascade on Recorrido.horarios): their recorrido_id becomes NULL.
desasociar_horarios(H, recorrido_id) ==
    {IF h.recorrido_id = recorrido_id THEN [h EXCEPT !.recorrido_id = NULL]
     ELSE h : h \in H}

\* DELETE /recorridos/{recorrido_id}
delete_recorrido_tx(d, recorrido_id) ==
    IF recorrido_id \notin Ids(d.recorridos) THEN Rechazo(d, 404)
    ELSE Exito([d EXCEPT !.recorridos = {r \in @ : r.id # recorrido_id},
                         !.horarios = desasociar_horarios(@, recorrido_id)],
               204)

\* db.query(Recorrido).join(Recorrido.linea).filter(Recorrido.id == id).first()
recorrido_con_linea(d, recorrido_id) ==
    \E r \in d.recorridos : r.id = recorrido_id /\ TieneLinea(d.lineas, r)

\* db.add(models.Horario(**horario.model_dump())); db.commit()
insertar_horario(d, horario) ==
    [d EXCEPT !.horarios = @ \cup
        {[id |-> siguiente_id(d.horarios),
          tipo_dia |-> horario.tipo_dia,
          hora_salida |-> horario.hora_salida,
          hora_llegada |-> horario.hora_llegada,
          directo |-> horario.directo,
          recorrido_id |-> horario.recorrido_id]}]

\* The five assignments to db_horario; db.commit()
asignar_horario(d, horario_id, horario) ==
    [d EXCEPT !.horarios =
        {IF h.id = horario_id
         THEN [h EXCEPT !.tipo_dia = horario.tipo_dia,
                        !.hora_salida = horario.hora_salida,
                        !.hora_llegada = horario.hora_llegada,
                        !.recorrido_id = horario.recorrido_id,
                        !.directo = horario.directo]
         ELSE h : h \in @}]

\* POST /horarios/ ; a body the schema rejects never reaches the handler (422).
crear_horario_tx(d, horario) ==
    IF ~HorarioCreate_valido(horario) THEN Rechazo(d, 422)
    ELSE IF ~validate_horario_duration(horario.hora_salida, horario.hora_llegada)
    THEN Rechazo(d, 400)
    ELSE IF ~validate_horario_unique(d.horarios, horario.recorrido_id,
                                     horario.tipo_dia, horario.hora_salida, NULL)
    THEN Rechazo(d, 400)
    ELSE IF ~recorrido_con_linea(d, horario.recorrido_id) THEN Rechazo(d, 404)
    ELSE Exito(insertar_horario(d, horario), 201)

\* PUT /horarios/{horario_id}
update_horario_tx(d, horario_id, horario) ==
    IF ~HorarioCreate_valido(horario) THEN Rechazo(d, 422)
    ELSE IF horario_id \notin Ids(d.horarios) THEN Rechazo(d, 404)
    ELSE IF ~validate_horario_duration(horario.hora_salida, horario.hora_llegada)
    THEN Rechazo(d, 400)
    ELSE IF ~validate_horario_unique(d.horarios, horario.recorrido_id,
                                     horario.tipo_dia, horario.hora_salida,
                                     horario_id)
    THEN Rechazo(d, 400)
    ELSE IF ~recorrido_con_linea(d, horario.recorrido_id) THEN Rechazo(d, 404)
    ELSE Exito(asignar_horario(d, horario_id, horario), 200)

\* DELETE /horarios/{horario_id}
delete_horario_tx(d, horario_id) ==
    IF horario_id \notin Ids(d.horarios) THEN Rechazo(d, 404)
    ELSE Exito([d EXCEPT !.horarios = {h \in @ : h.id # horario_id}], 204)

(***************************************************************************)
(* Queries shared by the search handlers                                   *)
(***************************************************************************)

\* Every order in which a collection without a defined order may be walked.
RECURSIVE Secuencias(_)
Secuencias(S) ==
    IF S = {} THEN {<<>>}
    ELSE UNION {{<<x>> \o s : s \in Secuencias(S \ {x})} : x \in S}

\* Faulty variant of order_by_hora_salida: the query without its order_by.
sin_order_by(S) == Secuencias(S)

\* .order_by(Horario.hora_salida).all(): the rows in ascending string order of
\* hora_salida; rows with the same hora_salida come in an order the database
\* does not define.
RECURSIVE order_by_hora_salida(_)
order_by_hora_salida(S) ==
    IF S = {} THEN {<<>>}
    ELSE LET primeras == {x \in S : \A y \in S : ~str_lt(y.hora_salida, x.hora_salida)}
         IN  UNION {{<<x>> \o s : s \in order_by_hora_salida(S \ {x})} : x \in primeras}

\* Python's None (a line name is never empty, see validate_linea_nombre).
None == <<>>

(***************************************************************************)
(* get_horarios_directos (GET /horarios-directos/)                         *)
(***************************************************************************)

\* Horario JOIN recorrido JOIN linea, filtered by origen, destino, tipo_dia.
horarios_completos(d, origen, destino, tipo_dia) ==
    {h \in d.horarios :
        \E r \in d.recorridos :
            /\ r.id = h.recorrido_id
            /\ TieneLinea(d.lineas, r)
            /\ r.origen = origen
            /\ r.destino = destino
            /\ h.tipo_dia = tipo_dia}

\* The dict appended for one trip.
HorarioConRecorrido(d, horario) ==
    LET r == Fila(d.recorridos, horario.recorrido_id)
    IN  [id |-> horario.id,
         tipo_dia |-> horario.tipo_dia,
         hora_salida |-> horario.hora_salida,
         hora_llegada |-> horario.hora_llegada,
         recorrido_id |-> horario.recorrido_id,
         directo |-> horario.directo,
         origen |-> r.origen,
         destino |-> r.destino,
         linea_nombre |-> Fila(d.lineas, r.linea_id).nombre]

\* Faulty variant of pasa_filtro_hora: hora_actual compared the wrong way round.
pasa_filtro_hora_invertido(horario, min_actual) ==
    str_to_minutos(horario.hora_salida) <= min_actual

\* if str_to_minutos(horario.hora_salida) >= min_actual
pasa_filtro_hora(horario, min_actual) ==
    str_to_minutos(horario.hora_salida) >= min_actual

\* The loop building horarios_filtrados from the ordered rows.
horarios_filtrados(d, filas, min_actual) ==
    LET pasan == SelectSeq(filas, LAMBDA h : pasa_filtro_hora(h, min_actual))
    IN  [i \in DOMAIN pasan |-> HorarioConRecorrido(d, pasan[i])]

\* Faulty variant of respuesta_directos: the second 404 check left out.
respuesta_directos_sin_404(filtrados) == [status |-> 200, body |-> filtrados]

\* if not horarios_filtrados: raise HTTPException(404); return horarios_filtrados
respuesta_directos(filtrados) ==
    IF filtrados = <<>> THEN [status |-> 404, body |-> <<>>]
    ELSE [status |-> 200, body |-> filtrados]

\* The responses the handler can give: [status, body].
get_horarios_directos_resp(d, origen, destino, tipo_dia, hora_actual) ==
    IF tipo_dia \notin TiposDia THEN {[status |-> 422, body |-> <<>>]}
    ELSE IF ~hora_actual_valida(hora_actual) THEN {[status |-> 400, body |-> <<>>]}
    ELSE IF horarios_completos(d, origen, destino, tipo_dia) = {}
    THEN {[status |-> 404, body |-> <<>>]}
    ELSE {respuesta_directos(
              horarios_filtrados(d, filas, str_to_minutos(hora_actual))) :
          filas \in order_by_hora_salida(
                        horarios_completos(d, origen, destino, tipo_dia))}

(***************************************************************************)
(* calcular_conexiones (GET /conexiones/)                                  *)
(***************************************************************************)

\* set(origins + destinations) of every stored route
ciudades_conocidas(d) ==
    {r.origen : r \in d.recorridos} \cup {r.destino : r \in d.recorridos}

\* Faulty variant of posibles_conexiones: the requested cities stay in.
posibles_conexiones_sin_quitar(d, origen, destino) == ciudades_conocidas(d)

\* [c for c in ciudades_conocidas if c != origen and c != destino]
posibles_conexiones(d, origen, destino) ==
    {c \in ciudades_conocidas(d) : c # origen /\ c # destino}

\* The trips of the routes desde -> hasta with the day type (no join with
\* linea here: a route without a line still counts).
horarios_tramo(d, desde, hasta, tipo_dia) ==
    {h \in d.horarios :
        \E r \in d.recorridos :
            /\ r.id = h.recorrido_id
            /\ r.origen = desde
            /\ r.destino = hasta
            /\ h.tipo_dia = tipo_dia}

\* Faulty variant of salta_tramo_a: no leg-A trip is skipped.
no_salta_tramo_a(horario_a, min_actual) == FALSE

\* if str_to_minutos(horario_a.hora_salida) < min_actual: continue
salta_tramo_a(horario_a, min_actual) ==
    str_to_minutos(horario_a.hora_salida) < min_actual

\* Faulty variant of conexion_valida: a departure at the very minute of the arrival
\* is taken as a connection.
conexion_valida_no_estricta(salida_b, llegada_a) == salida_b >= llegada_a

\* if salida_b > llegada_a
conexion_valida(salida_b, llegada_a) == salida_b > llegada_a

\* int(diferencia.total_seconds() / 60)
espera_min(salida_b, llegada_a) == ((salida_b - llegada_a) * 60) \div 60

\* db.query(Linea.nombre).join(Recorrido).filter(Recorrido.id == id).scalar()
linea_nombre(d, recorrido_id) ==
    IF \E r \in d.recorridos : r.id = recorrido_id /\ TieneLinea(d.lineas, r)
    THEN Fila(d.lineas, Fila(d.recorridos, recorrido_id).linea_id).nombre
    ELSE None

\* The fields class Conexion(BaseModel) declares.
CamposConexion ==
    {"tramo_a_salida", "tramo_a_llegada", "tramo_b_salida", "tramo_b_llegada",
     "tiempo_espera_min"}

\* schemas.Conexion(**kwargs): a pydantic model keeps its declared fields and
\* ignores any other keyword.
Conexion(kwargs) == [campo \in CamposConexion |-> kwargs[campo]]

\* The body of "if salida_b > llegada_a": the pairing appended for
\* (ciudad_conexion, horario_a, horario_b), kept with the loop variables it
\* was built from.
nueva_conexion(d, ciudad_conexion, horario_a, horario_b) ==
    [ciudad_conexion |-> ciudad_conexion,
     horario_a |-> horario_a.id,
     horario_b |-> horario_b.id,
     conexion |-> Conexion(
        [tramo_a_salida |-> horario_a.hora_salida,
         tramo_a_llegada |-> horario_a.hora_llegada,
         tramo_b_salida |-> horario_b.hora_salida,
         tramo_b_llegada |-> horario_b.hora_llegada,
         tiempo_espera_min |-> espera_min(strptime(horario_b.hora_salida),
                                          strptime(horario_a.hora_llegada)),
         ciudad_conexion |-> ciudad_conexion,
         linea_a_nombre |-> linea_nombre(d, horario_a.recorrido_id),
         linea_b_nombre |-> linea_nombre(d, horario_b.recorrido_id)])]

\* Faulty variant of buscar_tramo_b: the loop without its break, which pairs
\* horario_a with every later departure.
RECURSIVE buscar_tramo_b_sin_break(_, _, _, _)
buscar_tramo_b_sin_break(d, ciudad_conexion, horario_a, horarios_b) ==
    IF horarios_b = <<>> THEN <<>>
    ELSE LET horario_b == Head(horarios_b)
             resto == buscar_tramo_b_sin_break(d, ciudad_conexion, horario_a,
                                               Tail(horarios_b))
         IN  IF strptime_ok(horario_b.hora_salida)
                /\ conexion_valida(strptime(horario_b.hora_salida),
                                   strptime(horario_a.hora_llegada))
             THEN <<nueva_conexion(d, ciudad_conexion, horario_a, horario_b)>> \o resto
             ELSE resto

\* for horario_b in horarios_b: ... break -- the pairing of horario_a with the
\* first row of horarios_b that parses and departs after llegada_a, if any.
RECURSIVE buscar_tramo_b(_, _, _, _)
buscar_tramo_b(d, ciudad_conexion, horario_a, horarios_b) ==
    IF horarios_b = <<>> THEN <<>>
    ELSE LET horario_b == Head(horarios_b)
         IN  IF ~strptime_ok(horario_b.hora_salida)
             THEN buscar_tramo_b(d, ciudad_conexion, horario_a, Tail(horarios_b))
             ELSE IF conexion_valida(strptime(horario_b.hora_salida),
                                     strptime(horario_a.hora_llegada))
             THEN <<nueva_conexion(d, ciudad_conexion, horario_a, horario_b)>>
             ELSE buscar_tramo_b(d, ciudad_conexion, horario_a, Tail(horarios_b))

\* for horario_a in horarios_a: the pairings one candidate city adds.
RECURSIVE buscar_en_ciudad(_, _, _, _, _)
buscar_en_ciudad(d, ciudad_conexion, horarios_a, horarios_b, min_actual) ==
    IF horarios_a = <<>> THEN <<>>
    ELSE LET horario_a == Head(horarios_a)
             resto == buscar_en_ciudad(d, ciudad_conexion, Tail(horarios_a),
                                       horarios_b, min_actual)
         IN  IF salta_tramo_a(horario_a, min_actual) THEN resto
             ELSE buscar_tramo_b(d, ciudad_conexion, horario_a, horarios_b)
                      \o resto

\* Every list one candidate city can add, over the orders the two ORDER BY
\* queries may return.
conexiones_de_ciudad(d, origen, destino, tipo_dia, min_actual, ciudad_conexion) ==
    {buscar_en_ciudad(d, ciudad_conexion, horarios_a, horarios_b, min_actual) :
        horarios_a \in order_by_hora_salida(
                           horarios_tramo(d, origen, ciudad_conexion, tipo_dia)),
        horarios_b \in order_by_hora_salida(
                           horarios_tramo(d, ciudad_conexion, destino, tipo_dia))}

\* Faulty variant of conexiones_encontradas: the loop over the candidates
\* ends at the first city that gives a pairing.
RECURSIVE conexiones_encontradas_hasta_hallar(_, _, _, _, _, _)
conexiones_encontradas_hasta_hallar(d, origen, destino, tipo_dia, min_actual, orden) ==
    IF orden = <<>> THEN {<<>>}
    ELSE {IF primera # <<>> THEN primera ELSE demas :
            primera \in conexiones_de_ciudad(d, origen, destino, tipo_dia,
                                             min_actual, Head(orden)),
            demas \in conexiones_encontradas_hasta_hallar(
                          d, origen, destino, tipo_dia, min_actual, Tail(orden))}

\* for ciudad_conexion in posibles_conexiones: every conexiones_encontradas
\* the loop can build when it walks the candidates in the order given.
RECURSIVE conexiones_encontradas(_, _, _, _, _, _)
conexiones_encontradas(d, origen, destino, tipo_dia, min_actual, orden) ==
    IF orden = <<>> THEN {<<>>}
    ELSE {primera \o demas :
            primera \in conexiones_de_ciudad(d, origen, destino, tipo_dia,
                                             min_actual, Head(orden)),
            demas \in conexiones_encontradas(d, origen, destino, tipo_dia,
                                             min_actual, Tail(orden))}

\* key=lambda c: datetime.strptime(c.tramo_a_salida, FMT)
clave_orden(hallazgo) == strptime(hallazgo.conexion.tramo_a_salida)

\* Faulty variant of insertar: x goes before the elements with an equal key (a sort
\* that is not stable).
insertar_inestable(ordenada, x) ==
    LET antes == {i \in DOMAIN ordenada : clave_orden(ordenada[i]) < clave_orden(x)}
        k == IF antes = {} THEN 0 ELSE Max(antes)
    IN  SubSeq(ordenada, 1, k) \o <<x>> \o SubSeq(ordenada, k + 1, Len(ordenada))

\* Where list.sort places x in an already sorted list: after every element
\* whose key is not greater (the sort is stable).
insertar(ordenada, x) ==
    LET antes == {i \in DOMAIN ordenada : clave_orden(ordenada[i]) <= clave_orden(x)}
        k == IF antes = {} THEN 0 ELSE Max(antes)
    IN  SubSeq(ordenada, 1, k) \o <<x>> \o SubSeq(ordenada, k + 1, Len(ordenada))

\* conexiones_encontradas.sort(key=...)
RECURSIVE sort(_)
sort(lista) ==
    IF lista = <<>> THEN <<>>
    ELSE insertar(sort(SubSeq(lista, 1, Len(lista) - 1)), lista[Len(lista)])

\* The responses the handler can give: [status, body, encontradas,
\* candidatas], where encontradas is conexiones_encontradas as the loops left
\* it, before the sort, and candidatas the cities the outer loop walked.
calcular_conexiones_resp(d, origen, destino, tipo_dia, hora_actual) ==
    IF tipo_dia \notin TiposDia
    THEN {[status |-> 422, body |-> <<>>, encontradas |-> <<>>, candidatas |-> {}]}
    ELSE IF ~hora_actual_valida(hora_actual)
    THEN {[status |-> 400, body |-> <<>>, encontradas |-> <<>>, candidatas |-> {}]}
    ELSE {IF lista = <<>>
          THEN [status |-> 404, body |-> <<>>, encontradas |-> <<>>,
                candidatas |-> posibles_conexiones(d, origen, destino)]
          ELSE LET ordenada == sort(lista)
               IN  [status |-> 200,
                    body |-> [i \in DOMAIN ordenada |-> ordenada[i].conexion],
                    encontradas |-> lista,
                    candidatas |-> posibles_conexiones(d, origen, destino)] :
          lista \in UNION {conexiones_encontradas(d, origen, destino, tipo_dia,
                                                  str_to_minutos(hora_actual), orden) :
                           orden \in Secuencias(posibles_conexiones(d, origen, destino))}}

(***************************************************************************)
(* Authentication (auth/auth_utils.py, auth/crud_user.py,                  *)
(* auth/auth_routes.py).  A user row is [id, username, userpassword,      *)
(* role]; a password is a sequence of characters.  A bearer token is the   *)
(* JWT [sub, role, firma, vencido]: firma says it was signed with          *)
(* SECRET_KEY, vencido that its exp has passed when it is presented (the   *)
(* clock is not part of the state).  NoneType is a request without an      *)
(* Authorization header.                                                   *)
(***************************************************************************)

RoleEnum == {"Administrador", "Usuario"}

\* Python's None where a row, a payload or a token is expected.
NoneType == [none |-> TRUE]

LimiteBcrypt == 72

\* password_bytes[:72]
truncar(password) ==
    IF Len(password) > LimiteBcrypt THEN SubSeq(password, 1, LimiteBcrypt)
    ELSE password

\* bcrypt.hashpw: the stored text is a bcrypt hash of the truncated password
\* (the salt does not change what checkpw accepts).
hash_password(password) == [bcrypt |-> truncar(password)]

\* bcrypt.checkpw, FALSE also when the stored text is no bcrypt hash.
verify_password(plain_password, hashed_password) ==
    /\ DOMAIN hashed_password = {"bcrypt"}
    /\ hashed_password.bcrypt = truncar(plain_password)

\* jwt.encode(to_encode, SECRET_KEY): signed, exp in the future.
create_access_token(data) ==
    [sub |-> data.sub, role |-> data.role, firma |-> TRUE, vencido |-> FALSE]

\* jwt.decode: the payload, or NoneType on a JWTError (bad signature, expired).
decode_access_token(token) ==
    IF token.firma /\ ~token.vencido THEN [sub |-> token.sub, role |-> token.role]
    ELSE NoneType

\* db.query(User).filter(User.username == username).first()
get_user(U, username) ==
    IF \E u \in U : u.username = username
    THEN CHOOSE u \in U : u.username = username
    ELSE NoneType

\* oauth2_scheme and get_current_user_from_token: [status, user].
get_current_user_from_token(U, token) ==
    IF token = NoneType THEN [status |-> 401, user |-> NoneType]
    ELSE LET payload == decode_access_token(token)
         IN  IF payload = NoneType THEN [status |-> 401, user |-> NoneType]
             ELSE LET user == get_user(U, payload.sub)
                  IN  IF user = NoneType THEN [status |-> 404, user |-> NoneType]
                      ELSE [status |-> 200, user |-> user]

\* Faulty variant of get_admin_user: the role is not looked at.
get_admin_user_sin_rol(U, token) == get_current_user_from_token(U, token).status

\* get_admin_user: 200 when the request may go on to the handler, else the
\* status of the HTTPException.
get_admin_user(U, token) ==
    LET actual == get_current_user_from_token(U, token)
    IN  IF actual.status # 200 THEN actual.status
        ELSE IF actual.user.role # "Administrador" THEN 403
        ELSE 200

\* The attributes the mapped class User accepts as constructor keywords.
CamposUser == {"id", "username", "userpassword", "role"}

\* User(**kwargs): the declarative constructor raises TypeError for a keyword
\* that is not an attribute of the class.
User_ok(kwargs) == DOMAIN kwargs \subseteq CamposUser

\* create_user: [users, status]; an exception (TypeError, or the NOT NULL
\* column userpassword left unset) ends the request with 500 and no row.
create_user(U, username, password, role) ==
    LET kwargs == [username |-> username,
                   hashed_password |-> hash_password(password),
                   role |-> role]
    IN  IF ~User_ok(kwargs) THEN [users |-> U, status |-> 500]
        ELSE IF "userpassword" \notin DOMAIN kwargs THEN [users |-> U, status |-> 500]
        ELSE [users |-> U \cup {[id |-> siguiente_id(U),
                                 username |-> kwargs.username,
                                 userpassword |-> kwargs.userpassword,
                                 role |-> kwargs.role]},
              status |-> 201]

\* authenticate_user: the user row, or NoneType.
authenticate_user(U, username, password) ==
    LET user == get_user(U, username)
    IN  IF user = NoneType THEN NoneType
        ELSE IF ~verify_password(password, user.userpassword) THEN NoneType
        ELSE user

LargoMinimoUsername == 3

LargoMaximoUsername == 25

LargoMinimoPassword == 6

LargoMaximoPassword == 250

\* schemas.UserRegister
UserRegister_valido(user) ==
    /\ Len(user.username) >= LargoMinimoUsername
    /\ Len(user.username) <= LargoMaximoUsername
    /\ Len(user.userpassword) >= LargoMinimoPassword
    /\ Len(user.userpassword) <= LargoMaximoPassword

\* POST /auth/register: [users, status].
register_user_tx(U, user) ==
    IF ~UserRegister_valido(user) THEN [users |-> U, status |-> 422]
    ELSE IF get_user(U, user.username) # NoneType THEN [users |-> U, status |-> 400]
    ELSE create_user(U, user.username, user.userpassword, "Administrador")

\* POST /auth/login: [status, body].
login_user_tx(U, user) ==
    LET user_db == authenticate_user(U, user.username, user.userpassword)
    IN  IF user_db = NoneType THEN [status |-> 401, body |-> <<>>]
        ELSE [status |-> 200,
              body |-> <<create_access_token([sub |-> user_db.username,
                                              role |-> user_db.role])>>]

Mayusculas ==
    {"A", "B", "C", "D", "E", "F", "G", "H", "I", "J", "K", "L", "M",
     "N", "O", "P", "Q", "R", "S", "T", "U", "V", "W", "X", "Y", "Z"}

Minusculas ==
    {"a", "b", "c", "d", "e", "f", "g", "h", "i", "j", "k", "l", "m",
     "n", "o", "p", "q", "r", "s", "t", "u", "v", "w", "x", "y", "z"}

\* TRUE when password_strength raises no ValueError.
password_strength(password) ==
    /\ \E i \in DOMAIN password : password[i] \in Mayusculas
    /\ \E i \in DOMAIN password : password[i] \in Minusculas
    /\ \E i \in DOMAIN password : EsDigito(password[i])

LargoMinimoPasswordCreate == 12

\* schemas.UserCreate
UserCreate_valido(user) ==
    /\ Len(user.username) >= LargoMinimoUsername
    /\ Len(user.username) <= LargoMaximoUsername
    /\ user.role \in RoleEnum
    /\ Len(user.userpassword) >= LargoMinimoPasswordCreate
    /\ password_strength(user.userpassword)

\* POST /users/: [users, status].
crear_usuario_tx(U, user) ==
    IF ~UserCreate_valido(user) THEN [users |-> U, status |-> 422]
    ELSE IF get_user(U, user.username) # NoneType THEN [users |-> U, status |-> 400]
    ELSE [users |-> U \cup {[id |-> siguiente_id(U),
                             username |-> user.username,
                             userpassword |-> hash_password(user.userpassword),
                             role |-> user.role]},
          status |-> 201]

\* PUT /users/{user_id}: [users, status].  The new username is assigned
\* unchecked; users.username is UNIQUE, so the UPDATE fails when another row
\* has it.
update_usuario_tx(U, user_id, user) ==
    IF ~UserCreate_valido(user) THEN [users |-> U, status |-> 422]
    ELSE IF user_id \notin Ids(U) THEN [users |-> U, status |-> 404]
    ELSE IF \E u \in U : u.id # user_id /\ u.username = user.username
    THEN [users |-> U, status |-> 500]
    ELSE [users |-> {IF u.id = user_id
                     THEN [u EXCEPT !.username = user.username,
                                    !.role = user.role,
                                    !.userpassword = hash_password(user.userpassword)]
                     ELSE u : u \in U},
          status |-> 200]

\* DELETE /users/{user_id}: [users, status].
delete_usuario_tx(U, user_id) ==
    IF user_id \notin Ids(U) THEN [users |-> U, status |-> 404]
    ELSE [users |-> {u \in U : u.id # user_id}, status |-> 204]

(***************************************************************************)
(* State machine.  The tables are the state; op, req, cred, status and     *)
(* body are the last request served, the bearer token it carried and its   *)
(* response; encontradas and candidatas are what the loops of              *)
(* calcular_conexiones had collected before the final sort and the cities  *)
(* they walked; en_vuelo holds the requests that have run their checks and *)
(* not yet committed.                                                      *)
(***************************************************************************)

DB == [lineas |-> lineas, recorridos |-> recorridos, horarios |-> horarios]

VACIA == [lineas |-> {}, recorridos |-> {}, horarios |-> {}]

SinPeticion ==
    [origen |-> "", destino |-> "", tipo_dia |-> "", hora_actual |-> <<>>]

Peticion(origen, destino, tipo_dia, hora_actual) ==
    [origen |-> origen, destino |-> destino, tipo_dia |-> tipo_dia,
     hora_actual |-> hora_actual]

\* The tables after a commit.
Servida_tablas(d) ==
    /\ lineas' = d.lineas
    /\ recorridos' = d.recorridos
    /\ horarios' = d.horarios

\* An administrative request served: the tables it leaves and its status.
Servida(operacion, token, r) ==
    /\ op' = operacion
    /\ req' = SinPeticion
    /\ cred' = token
    /\ status' = r.status
    /\ lineas' = r.d.lineas
    /\ recorridos' = r.d.recorridos
    /\ horarios' = r.d.horarios
    /\ body' = <<>>
    /\ encontradas' = <<>>
    /\ candidatas' = {}
    /\ UNCHANGED <<users, en_vuelo>>

\* dependencies=[Depends(get_admin_user)]: the handler runs, with result r,
\* only when the dependency raises nothing.
Admin(operacion, token, r) ==
    LET codigo == get_admin_user(users, token)
    IN  IF codigo # 200 THEN Servida(operacion, token, Rechazo(DB, codigo))
        ELSE Servida(operacion, token, r)

crear_linea(token, linea) ==
    Admin("crear_linea", token, crear_linea_tx(DB, linea))

update_linea(token, linea_id, linea) ==
    Admin("update_linea", token, update_linea_tx(DB, linea_id, linea))

delete_linea(token, linea_id) ==
    Admin("delete_linea", token, delete_linea_tx(DB, linea_id))

crear_recorrido(token, recorrido) ==
    Admin("crear_recorrido", token, crear_recorrido_tx(DB, recorrido))

update_recorrido(token, recorrido_id, recorrido) ==
    \E fk_forzada \in BOOLEAN :
        Admin("update_recorrido", token,
              update_recorrido_tx(DB, recorrido_id, recorrido, fk_forzada))

delete_recorrido(token, recorrido_id) ==
    Admin("delete_recorrido", token, delete_recorrido_tx(DB, recorrido_id))

crear_horario(token, horario) ==
    Admin("crear_horario", token, crear_horario_tx(DB, horario))

update_horario(token, horario_id, horario) ==
    Admin("update_horario", token, update_horario_tx(DB, horario_id, horario))

delete_horario(token, horario_id) ==
    Admin("delete_horario", token, delete_horario_tx(DB, horario_id))

\* Faulty variant of Consulta: the request empties the trips.
Consulta_que_borra ==
    /\ horarios' = {}
    /\ UNCHANGED <<lineas, recorridos>>

\* The two public handlers only call db.query: no db.add, no db.delete and
\* no db.commit, so the session writes nothing.
Consulta == UNCHANGED tablas

get_horarios_directos(origen, destino, tipo_dia, hora_actual) ==
    \E r \in get_horarios_directos_resp(DB, origen, destino, tipo_dia, hora_actual) :
        /\ op' = "get_horarios_directos"
        /\ req' = Peticion(origen, destino, tipo_dia, hora_actual)
        /\ status' = r.status
        /\ cred' = NoneType
        /\ body' = r.body
        /\ encontradas' = <<>>
        /\ candidatas' = {}
        /\ Consulta
        /\ UNCHANGED <<users, en_vuelo>>

calcular_conexiones(origen, destino, tipo_dia, hora_actual) ==
    \E r \in calcular_conexiones_resp(DB, origen, destino, tipo_dia, hora_actual) :
        /\ op' = "calcular_conexiones"
        /\ req' = Peticion(origen, destino, tipo_dia, hora_actual)
        /\ status' = r.status
        /\ cred' = NoneType
        /\ body' = r.body
        /\ encontradas' = r.encontradas
        /\ candidatas' = r.candidatas
        /\ Consulta
        /\ UNCHANGED <<users, en_vuelo>>

\* A request on the users table served: the rows it leaves, its status and
\* its body.
Servida_users(operacion, credencial, r, cuerpo) ==
    /\ op' = operacion
    /\ req' = SinPeticion
    /\ cred' = credencial
    /\ status' = r.status
    /\ users' = r.users
    /\ body' = cuerpo
    /\ encontradas' = <<>>
    /\ candidatas' = {}
    /\ UNCHANGED <<tablas, en_vuelo>>

\* dependencies=[Depends(get_admin_user)] on the /users/ handlers.
Admin_users(operacion, token, r) ==
    LET codigo == get_admin_user(users, token)
    IN  IF codigo # 200
        THEN Servida_users(operacion, token, [users |-> users, status |-> codigo], <<>>)
        ELSE Servida_users(operacion, token, r, <<>>)

crear_usuario(token, user) ==
    Admin_users("crear_usuario", token, crear_usuario_tx(users, user))

update_usuario(token, user_id, user) ==
    Admin_users("update_usuario", token, update_usuario_tx(users, user_id, user))

delete_usuario(token, user_id) ==
    Admin_users("delete_usuario", token, delete_usuario_tx(users, user_id))

\* POST /auth/register; cred is the body sent.
register_user(user) ==
    Servida_users("register_user", user, register_user_tx(users, user), <<>>)

\* POST /auth/login; cred is the body sent, body the token returned.
login_user(user) ==
    LET r == login_user_tx(users, user)
    IN  Servida_users("login_user", user, [users |-> users, status |-> r.status],
                      r.body)

(***************************************************************************)
(* The trip handlers as they run between threads.  A handler is a plain    *)
(* def, which FastAPI serves from a thread pool with a session of its own: *)
(* its checks read the tables as they are when it starts, and its commit   *)
(* writes later, with other requests in between.  en_vuelo holds the       *)
(* requests whose checks have passed: [pid, token, operacion, horario_id,  *)
(* horario].                                                               *)
(***************************************************************************)

\* A response given without any write.
Respondida(operacion, token, codigo) ==
    /\ op' = operacion
    /\ req' = SinPeticion
    /\ cred' = token
    /\ status' = codigo
    /\ body' = <<>>
    /\ encontradas' = <<>>
    /\ candidatas' = {}
    /\ UNCHANGED <<tablas, users>>

\* crear_horario up to the line before db.add: the dependency and the checks.
\* A request that fails one is answered at once; one that passes them all
\* is in flight.
validar_crear_horario(token, pid, horario) ==
    /\ pid \notin {p.pid : p \in en_vuelo}
    /\ LET codigo == IF get_admin_user(users, token) # 200
                     THEN get_admin_user(users, token)
                     ELSE crear_horario_tx(DB, horario).status
       IN  IF codigo # 201
           THEN Respondida("crear_horario", token, codigo) /\ UNCHANGED en_vuelo
           ELSE /\ en_vuelo' = en_vuelo \cup
                        {[pid |-> pid, token |-> token, operacion |-> "crear_horario",
                          horario_id |-> NULL, horario |-> horario]}
                /\ UNCHANGED <<tablas, users, op, req, cred, status, body,
                               encontradas, candidatas>>

\* db.add(db_horario); db.commit() of a request in flight.
commit_crear_horario(p) ==
    /\ p \in en_vuelo
    /\ p.operacion = "crear_horario"
    /\ en_vuelo' = en_vuelo \ {p}
    /\ Servida_tablas(insertar_horario(DB, p.horario))
    /\ op' = "crear_horario"
    /\ req' = SinPeticion
    /\ cred' = p.token
    /\ status' = 201
    /\ body' = <<>>
    /\ encontradas' = <<>>
    /\ candidatas' = {}
    /\ UNCHANGED users

\* update_horario up to the line before the assignments.
validar_update_horario(token, pid, horario_id, horario) ==
    /\ pid \notin {p.pid : p \in en_vuelo}
    /\ LET codigo == IF get_admin_user(users, token) # 200
                     THEN get_admin_user(users, token)
                     ELSE update_horario_tx(DB, horario_id, horario).status
       IN  IF codigo # 200
           THEN Respondida("update_horario", token, codigo) /\ UNCHANGED en_vuelo
           ELSE /\ en_vuelo' = en_vuelo \cup
                        {[pid |-> pid, token |-> token, operacion |-> "update_horario",
                          horario_id |-> horario_id, horario |-> horario]}
                /\ UNCHANGED <<tablas, users, op, req, cred, status, body,
                               encontradas, candidatas>>

\* The assignments and db.commit() of a request in flight: the UPDATE of
\* the row loaded at the start; if the row is gone by now the flush raises
\* StaleDataError and the request ends with 500.
commit_update_horario(p) ==
    /\ p \in en_vuelo
    /\ p.operacion = "update_horario"
    /\ en_vuelo' = en_vuelo \ {p}
    /\ IF p.horario_id \in Ids(horarios)
       THEN /\ Servida_tablas(asignar_horario(DB, p.horario_id, p.horario))
            /\ status' = 200
       ELSE /\ UNCHANGED tablas
            /\ status' = 500
    /\ op' = "update_horario"
    /\ req' = SinPeticion
    /\ cred' = p.token
    /\ body' = <<>>
    /\ encontradas' = <<>>
    /\ candidatas' = {}
    /\ UNCHANGED users

(***************************************************************************)
(* Spec: every handler of main.py, from empty timetable tables, requested  *)
(* by the administrator whose row is in users.                             *)
(***************************************************************************)

\* A row of users whose password column holds the hash of password.
Usuario(id, username, password, role) ==
    [id |-> id, username |-> username,
     userpassword |-> hash_password(password), role |-> role]

Ana == <<"a", "n", "a">>

ClaveAna == <<"c", "l", "a", "v", "e", "1">>

UsuarioAdmin == Usuario(1, Ana, ClaveAna, "Administrador")

\* The token login_user hands to the administrator.
TokenAdmin == create_access_token([sub |-> Ana, role |-> "Administrador"])

MaxLineas == 2

MaxRecorridos == 2

MaxHorarios == 1

Hora(h1, h2, m1, m2) == <<h1, h2, ":", m1, m2>>

\* " A" is shorter than two characters once stripped.
NombresLinea == {<<"L", "1">>, <<"L", "2">>, <<" ", "A">>}

OrigenesAdmin == {"Concepcion", "leales "}

DestinosAdmin == {"Leales", "Concepcion"}

RecorridosAdmin ==
    [origen : OrigenesAdmin, destino : DestinosAdmin, linea_id : 1..MaxLineas]

\* <<"7", ":", "5">> is not zero-padded: the schema rejects it.
HorariosAdmin ==
    [tipo_dia : {"habil"},
     hora_salida : {Hora("0", "8", "0", "0"), Hora("2", "3", "5", "0")},
     hora_llegada : {Hora("0", "8", "0", "3"), Hora("0", "0", "2", "0"),
                     <<"7", ":", "5">>},
     recorrido_id : 1..MaxRecorridos,
     directo : {FALSE}]

\* "7:5" is not zero-padded.
HorasActualesAdmin == {<<"7", ":", "5">>, Hora("2", "3", "5", "5")}

Init ==
    /\ lineas = {}
    /\ recorridos = {}
    /\ horarios = {}
    /\ users = {UsuarioAdmin}
    /\ en_vuelo = {}
    /\ op = "inicio"
    /\ req = SinPeticion
    /\ cred = NoneType
    /\ status = 0
    /\ body = <<>>
    /\ encontradas = <<>>
    /\ candidatas = {}

Next ==
    \/ \E nombre \in NombresLinea :
          /\ siguiente_id(lineas) <= MaxLineas
          /\ crear_linea(TokenAdmin, [nombre |-> nombre])
    \/ \E linea_id \in 1..MaxLineas, nombre \in NombresLinea :
          update_linea(TokenAdmin, linea_id, [nombre |-> nombre])
    \/ \E linea_id \in 1..MaxLineas : delete_linea(TokenAdmin, linea_id)
    \/ \E recorrido \in RecorridosAdmin :
          /\ siguiente_id(recorridos) <= MaxRecorridos
          /\ crear_recorrido(TokenAdmin, recorrido)
    \/ \E recorrido_id \in 1..MaxRecorridos, recorrido \in RecorridosAdmin :
          update_recorrido(TokenAdmin, recorrido_id, recorrido)
    \/ \E recorrido_id \in 1..MaxRecorridos : delete_recorrido(TokenAdmin, recorrido_id)
    \/ \E horario \in HorariosAdmin :
          /\ siguiente_id(horarios) <= MaxHorarios
          /\ crear_horario(TokenAdmin, horario)
    \/ \E horario_id \in 1..MaxHorarios, horario \in HorariosAdmin :
          update_horario(TokenAdmin, horario_id, horario)
    \/ \E horario_id \in 1..MaxHorarios : delete_horario(TokenAdmin, horario_id)
    \/ \E hora_actual \in HorasActualesAdmin :
          get_horarios_directos("Concepcion", "Leales", "habil", hora_actual)
    \/ \E hora_actual \in HorasActualesAdmin :
          calcular_conexiones("Concepcion", "Leales", "habil", hora_actual)

Spec == Init /\ [][Next]_vars

(***************************************************************************)
(* SpecBusqueda: the two search handlers over timetables that the          *)
(* administrative handlers have built.  The initial tables are what a      *)
(* run of accepted POST requests leaves: two lines, the routes of          *)
(* SemillaRecorridos and at most MaxSemilla of the trips of                *)
(* SemillaHorarios; delete_linea then removes a line under its routes.      *)
(***************************************************************************)

MaxSemilla == 4

SemillaLineas == <<[nombre |-> <<"L", "1">>], [nombre |-> <<"L", "2">>]>>

SemillaRecorridos ==
    <<[origen |-> "Concepcion", destino |-> "SanMiguel",  linea_id |-> 1],
      [origen |-> "SanMiguel",  destino |-> "Leales",     linea_id |-> 1],
      [origen |-> "Concepcion", destino |-> "Famailla",   linea_id |-> 2],
      [origen |-> "Famailla",   destino |-> "Leales",     linea_id |-> 2],
      [origen |-> "Concepcion", destino |-> "Leales",     linea_id |-> 2],
      [origen |-> "Concepcion", destino |-> "SanMiguel",  linea_id |-> 2],
      [origen |-> "Concepcion", destino |-> "Leales",     linea_id |-> 1]>>

Viaje(tipo_dia, hora_salida, hora_llegada, recorrido_id) ==
    [tipo_dia |-> tipo_dia, hora_salida |-> hora_salida,
     hora_llegada |-> hora_llegada, recorrido_id |-> recorrido_id,
     directo |-> FALSE]

SemillaHorarios ==
    <<Viaje("habil",   Hora("0","7","0","0"), Hora("0","7","4","0"), 1),
      Viaje("habil",   Hora("0","7","3","0"), Hora("0","8","1","0"), 2),
      Viaje("habil",   Hora("0","8","0","0"), Hora("0","8","4","0"), 2),
      Viaje("habil",   Hora("0","7","4","0"), Hora("0","8","2","0"), 2),
      Viaje("habil",   Hora("0","7","0","0"), Hora("0","7","5","0"), 6),
      Viaje("habil",   Hora("0","6","3","0"), Hora("0","7","1","0"), 3),
      Viaje("habil",   Hora("0","7","4","5"), Hora("0","8","3","0"), 4),
      Viaje("habil",   Hora("2","3","5","0"), Hora("0","0","2","0"), 1),
      Viaje("domingo", Hora("0","7","5","0"), Hora("0","8","3","0"), 2),
      Viaje("habil",   Hora("0","7","1","5"), Hora("0","9","0","0"), 5),
      Viaje("habil",   Hora("0","6","0","0"), Hora("0","7","3","0"), 7)>>

\* The tables after POST /lineas/ for each body of the sequence, in order.
RECURSIVE sembrar_lineas(_, _)
sembrar_lineas(d, cuerpos) ==
    IF cuerpos = <<>> THEN d
    ELSE sembrar_lineas(crear_linea_tx(d, Head(cuerpos)).d, Tail(cuerpos))

\* The tables after POST /recorridos/ for each body of the sequence, in order.
RECURSIVE sembrar_recorridos(_, _)
sembrar_recorridos(d, cuerpos) ==
    IF cuerpos = <<>> THEN d
    ELSE sembrar_recorridos(crear_recorrido_tx(d, Head(cuerpos)).d, Tail(cuerpos))

\* The tables after POST /horarios/ for the bodies of SemillaHorarios whose
\* index is in elegidos, in index order, from the k-th on.
RECURSIVE sembrar_horarios(_, _, _)
sembrar_horarios(d, elegidos, k) ==
    IF k > Len(SemillaHorarios) THEN d
    ELSE sembrar_horarios(
             IF k \in elegidos THEN crear_horario_tx(d, SemillaHorarios[k]).d ELSE d,
             elegidos, k + 1)

BaseBusqueda ==
    sembrar_recorridos(sembrar_lineas(VACIA, SemillaLineas), SemillaRecorridos)

\* The line of one of the two direct routes Concepcion -> Leales.
LineasBorrables == {2}

OrigenesBusqueda == {"Concepcion"}

DestinosBusqueda == {"Leales"}

TiposBusqueda == {"habil", "domingo"}

\* "7:5" is not zero-padded; "24:00" is out of range.
HorasActuales ==
    {Hora("0","0","0","0"), Hora("0","7","3","0"), <<"7", ":", "5">>,
     Hora("2","4","0","0")}

InitBusqueda ==
    \E elegidos \in SUBSET DOMAIN SemillaHorarios :
        /\ Cardinality(elegidos) <= MaxSemilla
        /\ LET d == sembrar_horarios(BaseBusqueda, elegidos, 1)
           IN  /\ lineas = d.lineas
               /\ recorridos = d.recorridos
               /\ horarios = d.horarios
        /\ users = {UsuarioAdmin}
        /\ en_vuelo = {}
        /\ op = "inicio"
        /\ req = SinPeticion
        /\ cred = NoneType
        /\ status = 0
        /\ body = <<>>
        /\ encontradas = <<>>
        /\ candidatas = {}

NextBusqueda ==
    \/ \E linea_id \in LineasBorrables : delete_linea(TokenAdmin, linea_id)
    \/ \E origen \in OrigenesBusqueda, destino \in DestinosBusqueda,
          tipo_dia \in TiposBusqueda, hora_actual \in HorasActuales :
          get_horarios_directos(origen, destino, tipo_dia, hora_actual)
    \/ \E origen \in OrigenesBusqueda, destino \in DestinosBusqueda,
          tipo_dia \in TiposBusqueda, hora_actual \in HorasActuales :
          calcular_conexiones(origen, destino, tipo_dia, hora_actual)

SpecBusqueda == InitBusqueda /\ [][NextBusqueda]_vars

(***************************************************************************)
(* SpecHorarios: the trip handlers and the deletes over one line with one  *)
(* route, with bodies on both sides of the duration limits.                *)
(***************************************************************************)

MaxHorariosPrueba == 2

SemillaRecorridosPrueba ==
    <<[origen |-> "Concepcion", destino |-> "Leales", linea_id |-> 1]>>

BaseHorarios ==
    sembrar_recorridos(sembrar_lineas(VACIA, <<[nombre |-> <<"L", "1">>]>>),
                       SemillaRecorridosPrueba)

\* 08:00 -> 08:03 lasts 3 minutes, 08:00 -> 08:00 none, 08:00 -> 18:00 just
\* 600, 08:00 -> 00:20 and 23:50 -> 18:00 more; 23:50 -> 00:20 is 30 minutes
\* over midnight.
HorariosPrueba ==
    [tipo_dia : {"habil"},
     hora_salida : {Hora("0", "8", "0", "0"), Hora("2", "3", "5", "0")},
     hora_llegada : {Hora("0", "8", "0", "3"), Hora("0", "8", "0", "0"),
                     Hora("0", "0", "2", "0"), Hora("1", "8", "0", "0")},
     recorrido_id : DOMAIN SemillaRecorridosPrueba,
     directo : {FALSE}]

InitHorarios ==
    /\ lineas = BaseHorarios.lineas
    /\ recorridos = BaseHorarios.recorridos
    /\ horarios = {}
    /\ users = {UsuarioAdmin}
    /\ en_vuelo = {}
    /\ op = "inicio"
    /\ req = SinPeticion
    /\ cred = NoneType
    /\ status = 0
    /\ body = <<>>
    /\ encontradas = <<>>
    /\ candidatas = {}

NextHorarios ==
    \/ \E horario \in HorariosPrueba :
          /\ siguiente_id(horarios) <= MaxHorariosPrueba
          /\ crear_horario(TokenAdmin, horario)
    \/ \E horario_id \in 1..MaxHorariosPrueba, horario \in HorariosPrueba :
          update_horario(TokenAdmin, horario_id, horario)
    \/ \E horario_id \in 1..MaxHorariosPrueba : delete_horario(TokenAdmin, horario_id)
    \/ \E recorrido_id \in DOMAIN SemillaRecorridosPrueba :
          delete_recorrido(TokenAdmin, recorrido_id)
    \/ delete_linea(TokenAdmin, 1)

SpecHorarios == InitHorarios /\ [][NextHorarios]_vars

(***************************************************************************)
(* SpecConcurrente: crear_horario and update_horario requests that overlap *)
(* on one route, at most MaxEnVuelo of them in flight.                     *)
(***************************************************************************)

MaxEnVuelo == 2

MaxHorariosConcurrentes == 2

HorariosConcurrentes ==
    {Viaje("habil", Hora("0", "8", "0", "0"), Hora("1", "8", "0", "0"), 1),
     Viaje("habil", Hora("2", "3", "5", "0"), Hora("0", "0", "2", "0"), 1)}

\* The inserts still to come from the requests in flight.
AltasEnVuelo == Cardinality({p \in en_vuelo : p.operacion = "crear_horario"})

InitConcurrente ==
    /\ lineas = BaseHorarios.lineas
    /\ recorridos = BaseHorarios.recorridos
    /\ horarios = {}
    /\ users = {UsuarioAdmin}
    /\ en_vuelo = {}
    /\ op = "inicio"
    /\ req = SinPeticion
    /\ cred = NoneType
    /\ status = 0
    /\ body = <<>>
    /\ encontradas = <<>>
    /\ candidatas = {}

NextConcurrente ==
    \/ \E pid \in 1..MaxEnVuelo, horario \in HorariosConcurrentes :
          /\ Cardinality(horarios) + AltasEnVuelo < MaxHorariosConcurrentes
          /\ validar_crear_horario(TokenAdmin, pid, horario)
    \/ \E p \in en_vuelo : commit_crear_horario(p)
    \/ \E pid \in 1..MaxEnVuelo, horario_id \in 1..MaxHorariosConcurrentes,
          horario \in HorariosConcurrentes :
          validar_update_horario(TokenAdmin, pid, horario_id, horario)
    \/ \E p \in en_vuelo : commit_update_horario(p)
    \/ \E horario_id \in 1..MaxHorariosConcurrentes :
          en_vuelo = {} /\ delete_horario(TokenAdmin, horario_id)

SpecConcurrente == InitConcurrente /\ [][NextConcurrente]_vars

(***************************************************************************)
(* SpecAuth: every handler that writes, called with each kind of bearer    *)
(* token, next to the handlers that register, log in and administer users. *)
(* The database starts with the administrator ana and empty tables.        *)
(***************************************************************************)

MaxFilasAuth == 1

MaxUsuarios == 2

Beto == <<"b", "e", "t", "o">>

\* Twelve characters with an upper-case letter, a lower-case one and a digit.
ClaveBeto == <<"C", "l", "a", "v", "e", "1", "C", "l", "a", "v", "e", "2">>

\* The token login_user hands to beto.
TokenBeto == create_access_token([sub |-> Beto, role |-> "Usuario"])

\* A token signed with another key.
TokenFalso == [TokenAdmin EXCEPT !.firma = FALSE]

\* The administrator's token after its exp.
TokenVencido == [TokenAdmin EXCEPT !.vencido = TRUE]

\* NoneType: no Authorization header.
Tokens == {NoneType, TokenFalso, TokenVencido, TokenAdmin, TokenBeto}

LineaAuth == [nombre |-> <<"L", "1">>]

RecorridoAuth == [origen |-> "Concepcion", destino |-> "Leales", linea_id |-> 1]

HorarioAuth == Viaje("habil", Hora("0", "8", "0", "0"), Hora("1", "8", "0", "0"), 1)

\* ClaveAna is too short for UserCreate.
CuerposUsuario ==
    [username : {Beto}, userpassword : {ClaveBeto}, role : RoleEnum]
        \cup {[username |-> Ana, userpassword |-> ClaveAna, role |-> "Administrador"]}

\* <<"a", "b">> is too short for UserRegister.
CuerposRegistro ==
    [username : {Ana, Beto, <<"a", "b">>}, userpassword : {ClaveAna, ClaveBeto}]

CuerposLogin == [username : {Ana, Beto}, userpassword : {ClaveAna, ClaveBeto}]

InitAuth ==
    /\ lineas = {}
    /\ recorridos = {}
    /\ horarios = {}
    /\ users = {UsuarioAdmin}
    /\ en_vuelo = {}
    /\ op = "inicio"
    /\ req = SinPeticion
    /\ cred = NoneType
    /\ status = 0
    /\ body = <<>>
    /\ encontradas = <<>>
    /\ candidatas = {}

NextAuth ==
    \/ \E token \in Tokens :
          /\ siguiente_id(lineas) <= MaxFilasAuth
          /\ crear_linea(token, LineaAuth)
    \/ \E token \in Tokens : update_linea(token, 1, LineaAuth)
    \/ \E token \in Tokens : delete_linea(token, 1)
    \/ \E token \in Tokens :
          /\ siguiente_id(recorridos) <= MaxFilasAuth
          /\ crear_recorrido(token, RecorridoAuth)
    \/ \E token \in Tokens : update_recorrido(token, 1, RecorridoAuth)
    \/ \E token \in Tokens : delete_recorrido(token, 1)
    \/ \E token \in Tokens :
          /\ siguiente_id(horarios) <= MaxFilasAuth
          /\ crear_horario(token, HorarioAuth)
    \/ \E token \in Tokens : update_horario(token, 1, HorarioAuth)
    \/ \E token \in Tokens : delete_horario(token, 1)
    \/ \E token \in Tokens, user \in CuerposUsuario :
          /\ siguiente_id(users) <= MaxUsuarios
          /\ crear_usuario(token, user)
    \/ \E token \in Tokens, user_id \in 1..MaxUsuarios, user \in CuerposUsuario :
          update_usuario(token, user_id, user)
    \/ \E token \in Tokens, user_id \in 1..MaxUsuarios : delete_usuario(token, user_id)
    \/ \E user \in CuerposRegistro : register_user(user)
    \/ \E user \in CuerposLogin : login_user(user)

SpecAuth == InitAuth /\ [][NextAuth]_vars

(***************************************************************************)
(* SpecCandidatas: routes between three cities are created and deleted on  *)
(* one line, trips are added to them, and calcular_conexiones is asked for *)
(* every pair of cities.                                                   *)
(***************************************************************************)

MaxRecorridosCandidatas == 2

MaxHorariosCandidatas == 2

Ciudades == {"Concepcion", "SanMiguel", "Leales"}

RecorridosCandidatas == [origen : Ciudades, destino : Ciudades, linea_id : {1}]

\* 07:00 -> 07:40 and then 08:00 -> 08:40: the second can follow the first.
HorariosCandidatas ==
    {Viaje("habil", Hora("0", "7", "0", "0"), Hora("0", "7", "4", "0"), 1),
     Viaje("habil", Hora("0", "8", "0", "0"), Hora("0", "8", "4", "0"), 2)}

InitCandidatas ==
    /\ lineas = sembrar_lineas(VACIA, <<[nombre |-> <<"L", "1">>]>>).lineas
    /\ recorridos = {}
    /\ horarios = {}
    /\ users = {UsuarioAdmin}
    /\ en_vuelo = {}
    /\ op = "inicio"
    /\ req = SinPeticion
    /\ cred = NoneType
    /\ status = 0
    /\ body = <<>>
    /\ encontradas = <<>>
    /\ candidatas = {}

NextCandidatas ==
    \/ \E recorrido \in RecorridosCandidatas :
          /\ siguiente_id(recorridos) <= MaxRecorridosCandidatas
          /\ crear_recorrido(TokenAdmin, recorrido)
    \/ \E recorrido_id \in 1..MaxRecorridosCandidatas :
          delete_recorrido(TokenAdmin, recorrido_id)
    \/ \E horario \in HorariosCandidatas :
          /\ siguiente_id(horarios) <= MaxHorariosCandidatas
          /\ crear_horario(TokenAdmin, horario)
    \/ \E origen \in Ciudades, destino \in Ciudades :
          calcular_conexiones(origen, destino, "habil", Hora("0", "0", "0", "0"))

SpecCandidatas == InitCandidatas /\ [][NextCandidatas]_vars

(***************************************************************************)
(* SpecOrden: trips are added to and removed from four routes that join    *)
(* Concepcion and Leales through SanMiguel and through Famailla, two of    *)
(* them leaving Concepcion at the same minute, and calcular_conexiones is  *)
(* asked for Concepcion -> Leales.                                         *)
(***************************************************************************)

MaxHorariosOrden == 4

SemillaRecorridosOrden ==
    <<[origen |-> "Concepcion", destino |-> "SanMiguel", linea_id |-> 1],
      [origen |-> "SanMiguel",  destino |-> "Leales",    linea_id |-> 1],
      [origen |-> "Concepcion", destino |-> "Famailla",  linea_id |-> 1],
      [origen |-> "Famailla",   destino |-> "Leales",    linea_id |-> 1]>>

BaseOrden ==
    sembrar_recorridos(sembrar_lineas(VACIA, <<[nombre |-> <<"L", "1">>]>>),
                       SemillaRecorridosOrden)

\* Both first legs leave at 07:00.
HorariosOrden ==
    {Viaje("habil", Hora("0", "7", "0", "0"), Hora("0", "7", "4", "0"), 1),
     Viaje("habil", Hora("0", "8", "0", "0"), Hora("0", "8", "4", "0"), 2),
     Viaje("habil", Hora("0", "7", "0", "0"), Hora("0", "7", "3", "0"), 3),
     Viaje("habil", Hora("0", "7", "4", "5"), Hora("0", "8", "3", "0"), 4)}

HorasActualesOrden == {Hora("0", "0", "0", "0"), Hora("0", "7", "3", "0")}

InitOrden ==
    /\ lineas = BaseOrden.lineas
    /\ recorridos = BaseOrden.recorridos
    /\ horarios = {}
    /\ users = {UsuarioAdmin}
    /\ en_vuelo = {}
    /\ op = "inicio"
    /\ req = SinPeticion
    /\ cred = NoneType
    /\ status = 0
    /\ body = <<>>
    /\ encontradas = <<>>
    /\ candidatas = {}

NextOrden ==
    \/ \E horario \in HorariosOrden :
          /\ siguiente_id(horarios) <= MaxHorariosOrden
          /\ crear_horario(TokenAdmin, horario)
    \/ \E horario_id \in 1..MaxHorariosOrden : delete_horario(TokenAdmin, horario_id)
    \/ \E hora_actual \in HorasActualesOrden :
          calcular_conexiones("Concepcion", "Leales", "habil", hora_actual)

SpecOrden == InitOrden /\ [][NextOrden]_vars

(***************************************************************************)
(* The claims.  What a claim says about the stored timetable is restated   *)
(* here from the tables, not taken from the handler's own queries.         *)
(***************************************************************************)

EsConexiones == op = "calcular_conexiones"

EsDirectos == op = "get_horarios_directos"

\* Minutes of the day of a time the handler accepted.
Minutos(hora) == str_to_minutos(hora)

\* The stored trips of day type tipo_dia on any route desde -> hasta.
TramoGuardado(desde, hasta, tipo_dia) ==
    {h \in horarios :
        \E r \in recorridos : /\ r.id = h.recorrido_id
                              /\ r.origen = desde /\ r.destino = hasta
                              /\ h.tipo_dia = tipo_dia}

\* The candidate transfer cities of the last request.
Candidatas ==
    ({r.origen : r \in recorridos} \cup {r.destino : r \in recorridos})
        \ {req.origen, req.destino}

\* The leg-A trips through X that depart at or after hora_actual.
TramosAVigentes(X) ==
    {a \in TramoGuardado(req.origen, X, req.tipo_dia) :
        Minutos(a.hora_salida) >= Minutos(req.hora_actual)}

\* The leg-B trips through X that depart strictly after a arrives.
Factibles(X, a) ==
    {b \in TramoGuardado(X, req.destino, req.tipo_dia) :
        Minutos(b.hora_salida) > Minutos(a.hora_llegada)}

\* The pairings the loops recorded for candidate X and leg-A trip a.
Registradas(X, a) ==
    {i \in DOMAIN encontradas :
        encontradas[i].ciudad_conexion = X /\ encontradas[i].horario_a = a.id}

\* C1: every pairing a successful calcular_conexiones returns has leg B
\* departing strictly after leg A arrives, both read as minutes of the same
\* day, and a strictly positive tiempo_espera_min.
C1_SalidaBTrasLlegadaA ==
    (EsConexiones /\ status = 200) =>
        \A i \in DOMAIN body :
            /\ Minutos(body[i].tramo_b_salida) > Minutos(body[i].tramo_a_llegada)
            /\ body[i].tiempo_espera_min > 0

\* A returned pairing whose leg A arrives after midnight (its arrival reads
\* earlier than its departure).
C1_Testigo ==
    /\ EsConexiones /\ status = 200
    /\ \E i \in DOMAIN body :
          Minutos(body[i].tramo_a_llegada) < Minutos(body[i].tramo_a_salida)

\* C2: for each candidate city X and each leg-A trip a departing at or after
\* hora_actual: if some leg-B trip departs strictly after a arrives, the
\* pairing recorded for (X, a) uses a leg-B trip with the earliest such
\* departure and waits b.departure - a.arrival minutes; if none does, nothing
\* is recorded for (X, a).  What was recorded is what is returned.
C2_PrimeraSalidaFactible ==
    (EsConexiones /\ status \in {200, 404}) =>
        /\ \A X \in Candidatas : \A a \in TramosAVigentes(X) :
              IF Factibles(X, a) = {} THEN Registradas(X, a) = {}
              ELSE /\ Registradas(X, a) # {}
                   /\ \A i \in Registradas(X, a) :
                        \E b \in Factibles(X, a) :
                            /\ encontradas[i].horario_b = b.id
                            /\ \A otro \in Factibles(X, a) :
                                  Minutos(b.hora_salida) <= Minutos(otro.hora_salida)
                            /\ encontradas[i].conexion =
                                 [tramo_a_salida |-> a.hora_salida,
                                  tramo_a_llegada |-> a.hora_llegada,
                                  tramo_b_salida |-> b.hora_salida,
                                  tramo_b_llegada |-> b.hora_llegada,
                                  tiempo_espera_min |->
                                      Minutos(b.hora_salida) - Minutos(a.hora_llegada)]
        /\ Len(body) = Len(encontradas)
        /\ \A i \in DOMAIN encontradas :
              \E j \in DOMAIN body : body[j] = encontradas[i].conexion

\* A pairing recorded for a leg-A trip that had at least two feasible leg-B
\* trips and one infeasible one.
C2_Testigo ==
    /\ EsConexiones /\ status = 200
    /\ \E X \in Candidatas : \E a \in TramosAVigentes(X) :
          /\ Cardinality(Factibles(X, a)) >= 2
          /\ Registradas(X, a) # {}
    /\ \E X \in Candidatas : \E a \in TramosAVigentes(X) :
          /\ Factibles(X, a) # {}
          /\ Factibles(X, a) # TramoGuardado(X, req.destino, req.tipo_dia)

\* C3: each (candidate city, leg-A trip) contributes at most one pairing, so
\* the pairings returned are at most the leg-A trips departing at or after
\* hora_actual, summed over the candidate cities.
C3_UnaPorTramoA ==
    (EsConexiones /\ status = 200) =>
        /\ \A i, j \in DOMAIN encontradas :
              (/\ encontradas[i].ciudad_conexion = encontradas[j].ciudad_conexion
               /\ encontradas[i].horario_a = encontradas[j].horario_a) => i = j
        /\ Len(body) <= Cardinality(UNION {{<<X, a.id>> : a \in TramosAVigentes(X)} :
                                           X \in Candidatas})

\* A search in which one leg-A trip had several feasible leg-B trips and
\* still gave a single pairing.
C3_Testigo ==
    /\ EsConexiones /\ status = 200
    /\ \E X \in Candidatas : \E a \in TramosAVigentes(X) :
          /\ Cardinality(Factibles(X, a)) >= 2
          /\ Cardinality(Registradas(X, a)) = 1

\* C4: no returned pairing has a leg-A departure before hora_actual, and when
\* every leg-A trip that has a feasible leg-B trip departs before hora_actual
\* the call returns no pairing and signals 404.
C4_TramoANoAntesDeHoraActual ==
    (EsConexiones /\ status \in {200, 404}) =>
        /\ \A i \in DOMAIN body :
              Minutos(body[i].tramo_a_salida) >= Minutos(req.hora_actual)
        /\ (\A X \in Candidatas :
               \A a \in TramoGuardado(req.origen, X, req.tipo_dia) :
                   Factibles(X, a) # {} =>
                       Minutos(a.hora_salida) < Minutos(req.hora_actual))
           => (status = 404 /\ body = <<>>)

\* A 404 although some leg-A trip, departing before hora_actual, had a
\* feasible leg-B trip.
C4_Testigo ==
    /\ EsConexiones /\ status = 404
    /\ \E X \in Candidatas :
          \E a \in TramoGuardado(req.origen, X, req.tipo_dia) :
              /\ Factibles(X, a) # {}
              /\ Minutos(a.hora_salida) < Minutos(req.hora_actual)

\* C5: get_horarios_directos never returns a trip that departs, in minutes of
\* the day, before hora_actual.
C5_DirectosNoAntesDeHoraActual ==
    (EsDirectos /\ status = 200) =>
        \A i \in DOMAIN body :
            Minutos(body[i].hora_salida) >= Minutos(req.hora_actual)

\* A successful direct search that left out a stored matching trip because it
\* departs before hora_actual.
C5_Testigo ==
    /\ EsDirectos /\ status = 200
    /\ \E h \in TramoGuardado(req.origen, req.destino, req.tipo_dia) :
          /\ Minutos(h.hora_salida) < Minutos(req.hora_actual)
          /\ \A i \in DOMAIN body : body[i].id # h.id

\* The stored trips a direct search for the last request should list.
DirectosEsperados ==
    {h \in TramoGuardado(req.origen, req.destino, req.tipo_dia) :
        Minutos(h.hora_salida) >= Minutos(req.hora_actual)}

\* C6: a successful get_horarios_directos returns exactly the stored trips
\* whose route has the origen and destino asked for, whose day type matches
\* and which depart at or after hora_actual, in ascending order of departure;
\* none is omitted, also after delete_linea or update_recorrido.
C6_DirectosDevuelveTodos ==
    (EsDirectos /\ status = 200) =>
        /\ {body[i].id : i \in DOMAIN body} = {h.id : h \in DirectosEsperados}
        /\ Len(body) = Cardinality(DirectosEsperados)
        /\ \A i, j \in DOMAIN body :
              i < j => Minutos(body[i].hora_salida) <= Minutos(body[j].hora_salida)

\* The sort key of a returned pairing.
ClaveSalidaA(conexion) == Minutos(conexion.tramo_a_salida)

\* The pairings in the order the loops found them.
ConexionesHalladas == [i \in DOMAIN encontradas |-> encontradas[i].conexion]

HayConexion ==
    \E X \in Candidatas : \E a \in TramosAVigentes(X) : Factibles(X, a) # {}

\* C8: neither search returns an empty sequence as a success.
\* calcular_conexiones signals 404 whenever no pairing exists over all
\* candidates; get_horarios_directos signals 404 when no stored trip matches
\* origen, destino and tipo_dia and when hora_actual removes every matching
\* trip; an error carries no partial result.
C8_SinResultadoEs404 ==
    /\ (op \in {"calcular_conexiones", "get_horarios_directos"}) =>
          /\ status = 200 => body # <<>>
          /\ status # 200 => body = <<>>
    /\ (EsConexiones /\ status \in {200, 404} /\ ~HayConexion) => status = 404
    /\ (EsDirectos /\ status \in {200, 404} /\ DirectosEsperados = {}) => status = 404

\* A direct search answered 404 although trips match origen, destino and
\* tipo_dia: hora_actual removed all of them.
C8_Testigo ==
    /\ EsDirectos /\ status = 404
    /\ \E h \in TramoGuardado(req.origen, req.destino, req.tipo_dia) :
          \E r \in recorridos : r.id = h.recorrido_id /\ r.linea_id \in Ids(lineas)

\* Two zero-padded two-digit fields, hour 00..23 and minute 00..59.
EsHHMM(hora) ==
    /\ Len(hora) = 5
    /\ hora[3] = ":"
    /\ \A i \in {1, 2, 4, 5} : EsDigito(hora[i])
    /\ 10 * ValorDigito(hora[1]) + ValorDigito(hora[2]) <= 23
    /\ 10 * ValorDigito(hora[4]) + ValorDigito(hora[5]) <= 59

\* C9: both search handlers reject hora_actual with 400 and no result unless
\* it is two colon-separated zero-padded integers, hour 0..23 and minute
\* 0..59; "7:5" is rejected.
C9_HoraActualHHMM ==
    (op \in {"calcular_conexiones", "get_horarios_directos"} /\ ~EsHHMM(req.hora_actual))
        => (status = 400 /\ body = <<>>)

\* C10: every pairing calcular_conexiones returns carries the name of the
\* candidate city it was formed through and the line name of each leg.
C10_ConexionLlevaCiudadYLineas ==
    (EsConexiones /\ status = 200) =>
        \A i \in DOMAIN body :
            {"ciudad_conexion", "linea_a_nombre", "linea_b_nombre"}
                \subseteq DOMAIN body[i]

\* Arrival minus departure in minutes, plus a day when the arrival reads
\* earlier than the departure.
Duracion(h) ==
    LET salida  == Minutos(h.hora_salida)
        llegada == Minutos(h.hora_llegada)
    IN  IF llegada < salida THEN llegada - salida + 1440 ELSE llegada - salida

DuracionAdmitida(h) == LET minutos == Duracion(h) IN minutos >= 5 /\ minutos <= 600

\* The route asked for exists with its line and has no other trip of the
\* same day type and departure (exento is the trip being updated, if any).
SinOtroImpedimento(horario, exento) ==
    /\ \E r \in recorridos : r.id = horario.recorrido_id /\ r.linea_id \in Ids(lineas)
    /\ \A h \in horarios :
          (h.recorrido_id = horario.recorrido_id /\ h.tipo_dia = horario.tipo_dia
              /\ h.hora_salida = horario.hora_salida) => h.id = exento

\* What C11 says of one served trip request with body horario.
C11_Peticion(horario, exento) ==
    /\ ~DuracionAdmitida(horario) => (status' = 400 /\ UNCHANGED tablas)
    /\ (DuracionAdmitida(horario) /\ SinOtroImpedimento(horario, exento)) =>
          /\ status' \in {200, 201}
          /\ \E h \in horarios' : /\ h.hora_salida = horario.hora_salida
                                   /\ h.hora_llegada = horario.hora_llegada
                                   /\ h.recorrido_id = horario.recorrido_id

\* C11: every stored trip lasts at least 5 and at most 600 minutes (arrival
\* minus departure, plus 1440 when the arrival is earlier than the
\* departure); crear_horario and update_horario accept 23:50 -> 00:20, and
\* reject with 400, storing nothing, a body that lasts 3 minutes, whose
\* arrival equals its departure or that lasts more than 600 minutes.  (A
\* request that was accepted has its body stored, so for it the first
\* conjunct of the step says all there is to say.)
C11_DuracionEntre5Y600 ==
    /\ \A h \in horarios : DuracionAdmitida(h)
    /\ [][/\ \A h \in horarios' : DuracionAdmitida(h)
          /\ (op' = "crear_horario" /\ status' # 201) =>
                \A horario \in HorariosPrueba :
                    \/ C11_Peticion(horario, NULL)
                    \/ ~crear_horario(TokenAdmin, horario)
          /\ (op' = "update_horario" /\ status' # 200) =>
                \A horario \in HorariosPrueba, horario_id \in Ids(horarios) :
                    \/ C11_Peticion(horario, horario_id)
                    \/ ~update_horario(TokenAdmin, horario_id, horario)]_vars

\* A stored trip that arrives after midnight, just created.
C11_Testigo ==
    /\ op = "crear_horario" /\ status = 201
    /\ \E h \in horarios :
          /\ Minutos(h.hora_llegada) < Minutos(h.hora_salida)
          /\ Duracion(h) = 30

\* C12: whatever the interleaving of concurrent crear_horario and
\* update_horario requests (each one its uniqueness check and, later, its
\* commit), no two stored trips of the same recorrido_id and tipo_dia have
\* the same hora_salida.
C12_SalidaUnicaPorRecorrido ==
    \A h1, h2 \in horarios :
        (/\ h1.recorrido_id = h2.recorrido_id
         /\ h1.tipo_dia = h2.tipo_dia
         /\ h1.hora_salida = h2.hora_salida) => h1.id = h2.id

\* Two stored routes of one line with the same origen and destino.  A route
\* whose line was deleted has no linea_id and is on no line.
RecorridoRepetido(R) ==
    \E r1, r2 \in R :
        /\ r1.id # r2.id
        /\ r1.linea_id # NULL
        /\ r1.linea_id = r2.linea_id
        /\ r1.origen = r2.origen
        /\ r1.destino = r2.destino

\* A body for a stored line, with two different endpoints, whose origen and
\* destino no stored route of that line has.
RecorridoNuevoEnLinea(recorrido) ==
    /\ recorrido.linea_id \in Ids(lineas)
    /\ strip_lower(recorrido.origen) # strip_lower(recorrido.destino)
    /\ ~\E r \in recorridos : /\ r.linea_id = recorrido.linea_id
                               /\ r.origen = recorrido.origen
                               /\ r.destino = recorrido.destino

\* The body that repeats what the stored route r already says.
MismoRecorrido(r) ==
    [origen |-> r.origen, destino |-> r.destino, linea_id |-> r.linea_id]

C14_CadaUnoConSuDueno ==
    /\ \A h \in horarios : h.recorrido_id \in Ids(recorridos)
    /\ \A r \in recorridos : r.linea_id \in Ids(lineas)

BusquedasPublicas == {"get_horarios_directos", "calcular_conexiones"}

\* C15: a get_horarios_directos or calcular_conexiones request leaves the
\* stored lines, routes and trips as they were, whatever it answers (200,
\* 400, 404 or 422).
C15_BusquedasNoEscriben ==
    [][op' \in BusquedasPublicas =>
          /\ status' \in {200, 400, 404, 422}
          /\ lineas' = lineas
          /\ recorridos' = recorridos
          /\ horarios' = horarios]_vars

\* A search that failed over a database that holds trips.
C15_Testigo ==
    /\ op \in BusquedasPublicas
    /\ status \in {400, 404}
    /\ horarios # {}
    /\ recorridos # {}

\* The handlers that write lines, routes and trips.
EscriturasAdmin ==
    {"crear_linea", "update_linea", "delete_linea",
     "crear_recorrido", "update_recorrido", "delete_recorrido",
     "crear_horario", "update_horario", "delete_horario"}

\* The token is signed with the server's key and has not expired.
TokenVigente(token) == token # NoneType /\ token.firma /\ ~token.vencido

\* The stored users the token names.
Titulares(token) == {u \in users : u.username = token.sub}

\* C16: a request to a handler that writes lines, routes or trips changes
\* the tables only when its token is valid and names a stored user whose
\* role is Administrador; without a valid token it answers 401, with a valid
\* token of no stored user 404, with one of a user of another role 403, and
\* in the three cases the tables stay as they were.
C16_SoloAdministradorEscribe ==
    [][op' \in EscriturasAdmin =>
          /\ tablas' # tablas =>
                /\ TokenVigente(cred')
                /\ \E u \in Titulares(cred') : u.role = "Administrador"
          /\ ~TokenVigente(cred') => (status' = 401 /\ tablas' = tablas)
          /\ (TokenVigente(cred') /\ Titulares(cred') = {}) =>
                (status' = 404 /\ tablas' = tablas)
          /\ (TokenVigente(cred') /\ \E u \in Titulares(cred') : u.role # "Administrador") =>
                (status' = 403 /\ tablas' = tablas)]_vars

\* A stored user whose role is not Administrador has just been refused with
\* 403 a write on tables that hold a line.
C16_Testigo ==
    /\ op \in EscriturasAdmin
    /\ status = 403
    /\ TokenVigente(cred)
    /\ \E u \in Titulares(cred) : u.role = "Usuario"
    /\ lineas # {}

\* C20: a register_user request with a well-formed body whose username no
\* stored user has answers 201 and adds exactly one user, with that username
\* and role Administrador, with whom login_user then succeeds for the same
\* username and password; with a stored username it answers 400 and the
\* users stay as they were.
C20_RegistroCreaAdministrador ==
    [][(op' = "register_user" /\ UserRegister_valido(cred')) =>
          IF \E u \in users : u.username = cred'.username
          THEN status' = 400 /\ users' = users
          ELSE /\ status' = 201
               /\ \E u \in users' :
                     /\ u \notin users
                     /\ users' = users \cup {u}
                     /\ u.username = cred'.username
                     /\ u.role = "Administrador"
               /\ login_user_tx(users', cred').status = 200]_vars

\* The two cities a stored route names.
Extremos(r) == {r.origen, r.destino}

\* C17: when calcular_conexiones gets as far as its loops (200 or 404), the
\* cities it walks are the origen and destino of the stored routes without
\* the requested origen and destino; every pairing it records goes through
\* one of them, so none goes through the requested origen or destino; and
\* both cities of every stored route, each of them created by
\* crear_recorrido, are walked unless the request names them.
C17_CandidatasSonExtremosDeRecorridos ==
    (EsConexiones /\ status \in {200, 404}) =>
        /\ candidatas = Candidatas
        /\ \A i \in DOMAIN encontradas :
              /\ encontradas[i].ciudad_conexion \in Candidatas
              /\ encontradas[i].ciudad_conexion \notin {req.origen, req.destino}
        /\ \A r \in recorridos :
              Extremos(r) \ {req.origen, req.destino} \subseteq candidatas

\* A search that found a pairing through a city of a created route, while
\* the requested origen and destino, also cities of stored routes, were left
\* out.
C17_Testigo ==
    /\ EsConexiones /\ status = 200
    /\ encontradas # <<>>
    /\ candidatas # {}
    /\ \E r1, r2 \in recorridos : r1.origen = req.origen /\ r2.destino = req.destino
    /\ req.origen \notin candidatas
    /\ req.destino \notin candidatas

Veces(lista, x) == Cardinality({i \in DOMAIN lista : lista[i] = x})

\* The two sequences hold the same elements, each the same number of times.
MismoMultiset(l1, l2) ==
    /\ Len(l1) = Len(l2)
    /\ \A i \in DOMAIN l1 : Veces(l1, l1[i]) = Veces(l2, l1[i])

\* What the loops of the last request can collect when they walk the
\* candidate cities in the order given.
HalladasEnOrden(orden) ==
    conexiones_encontradas(DB, req.origen, req.destino, req.tipo_dia,
                           str_to_minutos(req.hora_actual), orden)

\* The sequence returned for what the loops collected.
Devueltas(lista) == LET ordenada == sort(lista)
                    IN  [i \in DOMAIN ordenada |-> ordenada[i].conexion]

====
